---- MODULE Spec2Model ----
(***************************************************************************)
(* Model of llmcpp's release tooling:                                      *)
(*   scripts/extract-release-notes.py  (the changelog section extractor)   *)
(*   scripts/update-changelog.py       (the changelog generator)           *)
(*                                                                         *)
(* Text is modelled as a sequence of one-character strings, so that the    *)
(* regular expressions, str.strip, str.split, str.startswith and           *)
(* readlines of the scripts are computed character by character.           *)
(***************************************************************************)
EXTENDS Integers, Sequences, FiniteSets, TLC

VARIABLES
    \* extract-release-notes.py
    content,      \* the text read from CHANGELOG.md (line 14)
    version,      \* sys.argv[1] (line 9)
    match,        \* the result of re.search (line 17)
    printed,      \* what the script printed
    xpc,          \* position in the script
    \* update-changelog.py, the pure pipeline: categorize, then format
    fcommits,     \* the commits the pipeline is run on
    ftoday,       \* datetime.now() as YYYY-MM-DD
    ffile,        \* CHANGELOG.md
    fparsed,      \* what parse_conventional_commit returned, commit by commit
    fcategories,  \* what categorize_commits returned
    fchangelog,   \* what generate_changelog_content returned
    fnotes,       \* what generate_release_notes returned
    fpc,          \* position in the pipeline
    \* update-changelog.py run as a command in a git repository
    history,      \* the subjects of the commits of the branch, oldest first
    tags,         \* tag name -> the place in history of the tagged commit, 0: no such tag
    file,         \* CHANGELOG.md
    today,        \* datetime.now() as YYYY-MM-DD
    writes,       \* how often the changelog file was written
    run           \* the running command: its position and its local variables

xvars == <<content, version, match, printed, xpc>>
fvars == <<fcommits, ftoday, ffile, fparsed, fcategories, fchangelog, fnotes, fpc>>
gvars == <<history, tags, file, today, writes, run>>
vars == <<xvars, fvars, gvars>>

(***************************************************************************)
(* Strings                                                                 *)
(***************************************************************************)
NL == "\n"

\* The characters str.strip() removes (those that occur in the model).
Whitespace == {" ", "\n", "\t"}

\* s[i..] starts with p  (str.startswith / a literal in a regex, at offset i)
IsPrefixAt(p, s, i) ==
    /\ i + Len(p) - 1 <= Len(s)
    /\ \A k \in 1..Len(p) : s[i + k - 1] = p[k]

StartsWith(s, p) == IsPrefixAt(p, s, 1)

Min(S) == CHOOSE x \in S : \A y \in S : x <= y
Max(S) == CHOOSE x \in S : \A y \in S : x >= y

\* str.strip()
Strip(s) ==
    LET keep == {i \in 1..Len(s) : s[i] \notin Whitespace}
    IN  IF keep = {} THEN <<>> ELSE SubSeq(s, Min(keep), Max(keep))

\* The concatenation of a sequence of strings ("".join / writelines)
RECURSIVE Concat(_)
Concat(ss) == IF ss = <<>> THEN <<>> ELSE Head(ss) \o Concat(Tail(ss))

\* The text cut at its newlines (str.split("\n")).
RECURSIVE SplitNL(_)
SplitNL(s) ==
    LET nls == {j \in 1..Len(s) : s[j] = NL}
    IN  IF nls = {} THEN <<s>>
        ELSE <<SubSeq(s, 1, Min(nls) - 1)>> \o SplitNL(SubSeq(s, Min(nls) + 1, Len(s)))

\* Lines joined by newlines ("\n".join)
RECURSIVE JoinNL(_)
JoinNL(ls) ==
    IF ls = <<>> THEN <<>>
    ELSE IF Len(ls) = 1 THEN Head(ls)
    ELSE Head(ls) \o <<NL>> \o JoinNL(Tail(ls))

(***************************************************************************)
(* extract-release-notes.py                                                *)
(***************************************************************************)
repo_url == <<"h","t","t","p","s",":","/","/","g","i","t","h","u","b",".","c","o","m","/","l","u","c",
       "a","r","o","m","a","g","n","o","l","i","/","l","l","m","c","p","p">>

\* The result of re.search: None, or a match with its group(1).
NoMatch == [found |-> FALSE, group1 |-> <<>>]

\* re.escape(version): every character of the version matches only itself.
\* A pattern item is [any |-> BOOLEAN, ch |-> character]; any is the regex dot.
RegexEscape(v) == [i \in 1..Len(v) |-> [any |-> FALSE, ch |-> v[i]]]

\* The pattern items match s at offset i (re.DOTALL: the dot matches any character).
ItemsMatchAt(items, s, i) ==
    /\ i + Len(items) - 1 <= Len(s)
    /\ \A k \in 1..Len(items) : items[k].any \/ s[i + k - 1] = items[k].ch

\* ^ under re.MULTILINE: the start of the text, or just after a newline.
LineStart(s, i) == i = 1 \/ s[i - 1] = NL

\* ^## \[<version>\] matches s at offset i.
HeadingAt(s, v, i) ==
    /\ LineStart(s, i)
    /\ IsPrefixAt(<<"#","#"," ","[">>, s, i)
    /\ ItemsMatchAt(RegexEscape(v), s, i + 4)
    /\ IsPrefixAt(<<"]">>, s, i + 4 + Len(v))

\* [^\n]*\n after the heading at i: the offset just past the first newline,
\* 0 when the text ends before one.
AfterHeadingLine(s, v, i) ==
    LET from == i + 4 + Len(v) + 1
        nls == {j \in from..Len(s) : s[j] = NL}
    IN  IF nls = {} THEN 0 ELSE Min(nls) + 1

\* (.*?)(?=^## \[|\Z) from offset b: the shortest body that ends at a line
\* starting with "## [" or at the end of the text.
BodyEnd(s, b) ==
    Min({j \in b..(Len(s) + 1) :
            \/ j = Len(s) + 1
            \/ LineStart(s, j) /\ IsPrefixAt(<<"#","#"," ","[">>, s, j)})

\* The whole pattern matches s at offset i.
PatternAt(s, v, i) == HeadingAt(s, v, i) /\ AfterHeadingLine(s, v, i) # 0

\* re.search(pattern, content, re.MULTILINE | re.DOTALL): the leftmost match;
\* its group(1), or NoMatch.
Search(s, v) ==
    LET at == {i \in 1..Len(s) : PatternAt(s, v, i)}
    IN  IF at = {} THEN NoMatch
        ELSE LET b == AfterHeadingLine(s, v, Min(at))
             IN  [found |-> TRUE, group1 |-> SubSeq(s, b, BodyEnd(s, b) - 1)]

\* "@" stands for the rocket emoji of the headings.
WhatsChanged(notes) == <<"#","#"," ","@"," ","W","h","a","t","'","s"," ","C","h","a","n","g","e","d","\n","\n">> \o notes

NoDetails(v) ==
    <<"#","#"," ","@"," ","R","e","l","e","a","s","e"," ">> \o v \o <<"\n","\n","N","o"," ","d","e","t","a","i","l","e","d"," ","c","h","a","n","g","e","s",
       " ","f","o","u","n","d"," ","f","o","r"," ","t","h","i","s"," ","v","e","r","s","i","o",
       "n",".","\n","\n">>
    \o <<"*","*","F","u","l","l"," ","C","h","a","n","g","e","l","o","g","*","*",":"," ">> \o repo_url \o <<"/","r","e","l","e","a","s","e","s","/","t","a","g","/","v">> \o v

NoSection(v) ==
    <<"#","#"," ","@"," ","R","e","l","e","a","s","e"," ">> \o v
    \o <<"\n","\n","T","h","i","s"," ","r","e","l","e","a","s","e"," ","i","n","c","l","u","d",
       "e","s"," ","v","a","r","i","o","u","s"," ","i","m","p","r","o","v","e","m","e","n","t",
       "s"," ","a","n","d"," ","b","u","g"," ","f","i","x","e","s",".","\n","\n">>
    \o <<"*","*","F","u","l","l"," ","C","h","a","n","g","e","l","o","g","*","*",":"," ">> \o repo_url \o <<"/","r","e","l","e","a","s","e","s","/","t","a","g","/","v">> \o v

\* Lines 18-25: the text handed to print().
Output(m, v) ==
    IF m.found
    THEN LET notes == Strip(m.group1)
         IN  IF notes # <<>> THEN WhatsChanged(notes) ELSE NoDetails(v)
    ELSE NoSection(v)

(***************************************************************************)
(* update-changelog.py: parser, categorizer, formatters                    *)
(***************************************************************************)
\* The alternation of the pattern of parse_conventional_commit, in its order.
Types ==
    << <<"f","e","a","t">>, <<"f","i","x">>, <<"d","o","c","s">>, <<"s","t","y","l","e">>, <<"r","e","f","a","c","t","o","r">>, <<"p","e","r","f">>, <<"t","e","s","t">>,
       <<"c","h","o","r","e">>, <<"b","u","i","l","d">>, <<"c","i">>, <<"r","e","v","e","r","t">> >>

\* self.commit_categories.get(commit_type, 'Other')
commit_categories(t) ==
    CASE t = <<"f","e","a","t">>     -> <<"A","d","d","e","d">>
      [] t = <<"f","i","x">>      -> <<"F","i","x","e","d">>
      [] t = <<"d","o","c","s">>     -> <<"D","o","c","u","m","e","n","t","a","t","i","o","n">>
      [] t = <<"s","t","y","l","e">>    -> <<"C","h","a","n","g","e","d">>
      [] t = <<"r","e","f","a","c","t","o","r">> -> <<"C","h","a","n","g","e","d">>
      [] t = <<"p","e","r","f">>     -> <<"P","e","r","f","o","r","m","a","n","c","e">>
      [] t = <<"t","e","s","t">>     -> <<"T","e","s","t","i","n","g">>
      [] t = <<"b","u","i","l","d">>    -> <<"B","u","i","l","d">>
      [] t = <<"c","i">>       -> <<"B","u","i","l","d">>
      [] t = <<"c","h","o","r","e">>    -> <<"M","a","i","n","t","e","n","a","n","c","e">>
      [] t = <<"r","e","v","e","r","t">>   -> <<"R","e","v","e","r","t","e","d">>
      [] OTHER           -> <<"O","t","h","e","r">>

\* As AfterScope, with a scope that may be empty ([^)]* for [^)]+).
AfterScope_EmptyScope(s, i) ==
    LET closes == {j \in (i + 1)..Len(s) : s[j] = ")"}
    IN  IF i <= Len(s) /\ s[i] = "(" /\ closes # {}
        THEN Min(closes) + 1
        ELSE i

\* (?:\([^)]+\))? at offset i: the offset after the scope, or i itself when
\* no scope matches there ([^)]+ runs up to the first ")", and is not empty).
AfterScope(s, i) ==
    LET closes == {j \in (i + 1)..Len(s) : s[j] = ")"}
    IN  IF i <= Len(s) /\ s[i] = "(" /\ closes # {} /\ Min(closes) >= i + 2
        THEN Min(closes) + 1
        ELSE i

\* (.+)$ on the rest r of the message: the dot matches no newline, and $
\* matches at the end or before a newline that ends the text.
\* The description, or <<>> when there is no match.
DescriptionOf(r) ==
    LET nls == {j \in 1..Len(r) : r[j] = NL}
    IN  IF nls = {} THEN r
        ELSE IF nls = {Len(r)} THEN SubSeq(r, 1, Len(r) - 1)
        ELSE <<>>

\* ": (.+)$" at offset i: the description, or <<>>.
ColonDescription(s, i) ==
    IF IsPrefixAt(<<":"," ">>, s, i) THEN DescriptionOf(SubSeq(s, i + 2, Len(s))) ELSE <<>>

\* The pattern with type t: the scope is tried first, then no scope.
DescriptionWithType(s, t) ==
    IF ~StartsWith(s, t) THEN <<>>
    ELSE LET i == Len(t) + 1
             withScope == ColonDescription(s, AfterScope(s, i))
         IN  IF withScope # <<>> THEN withScope ELSE ColonDescription(s, i)

NoParse == [ok |-> FALSE, type |-> <<>>, description |-> <<>>]

\* parse_conventional_commit: re.match with the first alternative that matches.
parse_conventional_commit(commit_msg) ==
    LET hits == {k \in 1..Len(Types) : DescriptionWithType(commit_msg, Types[k]) # <<>>}
    IN  IF hits = {} THEN NoParse
        ELSE [ok |-> TRUE, type |-> Types[Min(hits)],
              description |-> DescriptionWithType(commit_msg, Types[Min(hits)])]

\* As EmptyCategories, with the keys in alphabetical order.
EmptyCategories_Alphabetical ==
    [k \in 1..10 |->
        [key |-> << <<"A","d","d","e","d">>, <<"B","u","i","l","d">>, <<"C","h","a","n","g","e","d">>, <<"D","o","c","u","m","e","n","t","a","t","i","o","n">>, <<"F","i","x","e","d">>,
                    <<"M","a","i","n","t","e","n","a","n","c","e">>, <<"O","t","h","e","r">>, <<"P","e","r","f","o","r","m","a","n","c","e">>, <<"R","e","v","e","r","t","e","d">>, <<"T","e","s","t","i","n","g">> >>[k],
         entries |-> <<>>]]

\* The dict built at the top of categorize_commits; a dict keeps the order in
\* which its keys were inserted, so it is a sequence of (key, list) entries.
EmptyCategories ==
    [k \in 1..10 |->
        [key |-> << <<"A","d","d","e","d">>, <<"C","h","a","n","g","e","d">>, <<"F","i","x","e","d">>, <<"D","o","c","u","m","e","n","t","a","t","i","o","n">>, <<"P","e","r","f","o","r","m","a","n","c","e">>,
                    <<"T","e","s","t","i","n","g">>, <<"B","u","i","l","d">>, <<"M","a","i","n","t","e","n","a","n","c","e">>, <<"R","e","v","e","r","t","e","d">>, <<"O","t","h","e","r">> >>[k],
         entries |-> <<>>]]

\* As AppendEntry, keeping one copy of equal entries.
AppendEntry_Dedup(entries, e) ==
    IF \E k \in 1..Len(entries) : entries[k] = e THEN entries ELSE Append(entries, e)

\* list.append
AppendEntry(entries, e) == Append(entries, e)

\* categories[category].append(entry)
AddEntry(categories, category, e) ==
    [k \in 1..Len(categories) |->
        IF categories[k].key = category
        THEN [categories[k] EXCEPT !.entries = AppendEntry(@, e)]
        ELSE categories[k]]

\* As CategorizeOne, with no else branch: a commit that does not parse is dropped.
CategorizeOne_DropUnparsed(categories, commit) ==
    LET parsed == parse_conventional_commit(commit[2])
    IN  IF parsed.ok
        THEN AddEntry(categories, commit_categories(parsed.type), parsed.description)
        ELSE categories

\* One turn of the loop of categorize_commits, for the commit (hash, msg).
CategorizeOne(categories, commit) ==
    LET parsed == parse_conventional_commit(commit[2])
    IN  IF parsed.ok
        THEN AddEntry(categories, commit_categories(parsed.type), parsed.description)
        ELSE AddEntry(categories, <<"O","t","h","e","r">>, commit[2])

RECURSIVE CategorizeFrom(_, _)
CategorizeFrom(categories, commits) ==
    IF commits = <<>> THEN categories
    ELSE CategorizeFrom(CategorizeOne(categories, Head(commits)), Tail(commits))

categorize_commits(commits) == CategorizeFrom(EmptyCategories, commits)

\* "- <entry>\n" for each entry
RECURSIVE Bullets(_)
Bullets(entries) ==
    IF entries = <<>> THEN <<>>
    ELSE <<"-"," ">> \o Head(entries) \o <<NL>> \o Bullets(Tail(entries))

\* The loop "for category, entries in categories.items()" of both formatters.
RECURSIVE Sections(_)
Sections(categories) ==
    IF categories = <<>> THEN <<>>
    ELSE (IF Head(categories).entries # <<>>
          THEN <<"#","#","#"," ">> \o Head(categories).key \o <<NL>>
               \o Bullets(Head(categories).entries) \o <<NL>>
          ELSE <<>>)
         \o Sections(Tail(categories))

\* any(categories.values())
AnyEntries(categories) == \E k \in 1..Len(categories) : categories[k].entries # <<>>

\* As generate_changelog_content, without the test of line 129.
generate_changelog_content_NoEmptyTest(categories, date) ==
    <<"#","#"," ","[","U","n","r","e","l","e","a","s","e","d","]"," ","-"," ">> \o date \o <<"\n","\n">> \o Sections(categories)

\* generate_changelog_content; date is datetime.now().strftime('%Y-%m-%d').
generate_changelog_content(categories, date) ==
    IF ~AnyEntries(categories) THEN <<>>
    ELSE <<"#","#"," ","[","U","n","r","e","l","e","a","s","e","d","]"," ","-"," ">> \o date \o <<"\n","\n">> \o Sections(categories)

\* Lines 204-220 of generate_release_notes, for a commit list that is not empty.
RenderReleaseNotes(commits, prev_tag, current_tag) ==
    <<"#","#"," ","@"," ","W","h","a","t","'","s"," ","C","h","a","n","g","e","d","\n","\n">>
    \o Sections(categorize_commits(commits))
    \o <<"*","*","F","u","l","l"," ","C","h","a","n","g","e","l","o","g","*","*",":"," ","h","t",
       "t","p","s",":","/","/","g","i","t","h","u","b",".","c","o","m","/","l","u","c","a","r",
       "o","m","a","g","n","o","l","i","/","l","l","m","c","p","p","/","c","o","m","p","a","r",
       "e","/">>
    \o prev_tag \o <<".",".",".">> \o current_tag \o <<NL>>

NoChanges == <<"N","o"," ","c","h","a","n","g","e","s"," ","i","n"," ","t","h","i","s"," ","r","e","l",
       "e","a","s","e",".">>

\* generate_release_notes, given what get_commits_since_tag(prev_tag) returned.
ReleaseNotesOf(commits, prev_tag, current_tag) ==
    IF commits = <<>> THEN NoChanges
    ELSE RenderReleaseNotes(commits, prev_tag, current_tag)

(***************************************************************************)
(* update-changelog.py: the changelog file                                 *)
(***************************************************************************)
\* CHANGELOG.md: absent, or its text.
NoFile == [exists |-> FALSE, text |-> <<>>]
FileOf(t) == [exists |-> TRUE, text |-> t]

\* f.readlines(): the lines of the text, each with the newline that ends it.
RECURSIVE ReadLines(_)
ReadLines(s) ==
    LET nls == {j \in 1..Len(s) : s[j] = NL}
    IN  IF s = <<>> THEN <<>>
        ELSE IF nls = {} THEN <<s>>
        ELSE <<SubSeq(s, 1, Min(nls))>> \o ReadLines(SubSeq(s, Min(nls) + 1, Len(s)))

\* Lines 172-176: just after the first line that starts with "# Changelog",
\* or the top of the file when there is none.
InsertPos(lines) ==
    LET hs == {i \in 1..Len(lines) : StartsWith(lines[i], <<"#"," ","C","h","a","n","g","e","l","o","g">>)}
    IN  IF hs = {} THEN 0 ELSE Min(hs)

\* As InsertContent, with the lines after insert_pos left out.
InsertContent_Overwrite(lines, insert_pos, new_content) ==
    SubSeq(lines, 1, insert_pos) \o <<<<NL>>>> \o <<new_content>> \o <<<<NL>>>>

\* Line 179.
InsertContent(lines, insert_pos, new_content) ==
    SubSeq(lines, 1, insert_pos) \o <<<<NL>>>> \o <<new_content>> \o <<<<NL>>>>
    \o SubSeq(lines, insert_pos + 1, Len(lines))

\* Lines 185-192.
NewFileHeader ==
    <<"#"," ","C","h","a","n","g","e","l","o","g","\n","\n","A","l","l"," ","n","o","t","a",
       "b","l","e"," ","c","h","a","n","g","e","s"," ","t","o"," ","t","h","i","s"," ","p","r",
       "o","j","e","c","t"," ","w","i","l","l"," ","b","e"," ","d","o","c","u","m","e","n","t",
       "e","d"," ","i","n"," ","t","h","i","s"," ","f","i","l","e",".","\n","\n">>
    \o <<"T","h","e"," ","f","o","r","m","a","t"," ","i","s"," ","b","a","s","e","d"," ","o","n",
       " ","[","K","e","e","p"," ","a"," ","C","h","a","n","g","e","l","o","g","]","(","h","t",
       "t","p","s",":","/","/","k","e","e","p","a","c","h","a","n","g","e","l","o","g",".","c",
       "o","m","/","e","n","/","1",".","0",".","0","/",")",",","\n">>
    \o <<"a","n","d"," ","t","h","i","s"," ","p","r","o","j","e","c","t"," ","a","d","h","e","r",
       "e","s"," ","t","o"," ","[","S","e","m","a","n","t","i","c"," ","V","e","r","s","i","o",
       "n","i","n","g","]","(","h","t","t","p","s",":","/","/","s","e","m","v","e","r",".","o",
       "r","g","/","s","p","e","c","/","v","2",".","0",".","0",".","h","t","m","l",")",".",
       "\n","\n">>

\* Lines 165-194: the file after new_content was written to it.
WriteChangelog(f, new_content) ==
    IF f.exists
    THEN LET lines == ReadLines(f.text)
         IN  FileOf(Concat(InsertContent(lines, InsertPos(lines), new_content)))
    ELSE FileOf(NewFileHeader \o new_content)

\* Lines 153-194 of update_changelog: the file after the update, given what
\* get_commits_since_tag returned.
UpdatedFile(f, commits, date) ==
    IF commits = <<>> THEN f
    ELSE LET new_content == generate_changelog_content(categorize_commits(commits), date)
         IN  IF new_content = <<>> THEN f ELSE WriteChangelog(f, new_content)

(***************************************************************************)
(* update-changelog.py: the git subprocesses                               *)
(***************************************************************************)
TagNames == {<<"v","1">>, <<"v","2">>}
NoTags == [t \in TagNames |-> 0]

\* The hash of the commit at each place of the history.
Hashes == <<<<"h","1">>, <<"h","2">>, <<"h","3">>, <<"h","4">>, <<"h","5">>, <<"h","6">>>>

\* The commit list with the given subjects, oldest first.
CommitsOf(subjects) == [i \in 1..Len(subjects) |-> <<Hashes[i], subjects[i]>>]

\* The place in the history a revision names, -1 when git cannot resolve it:
\* a tag, a commit hash, or HEAD~10 (line 67).
Resolve(rev, hist, tgs) ==
    IF rev \in TagNames THEN (IF tgs[rev] > 0 THEN tgs[rev] ELSE -1)
    ELSE IF \E i \in 1..Len(hist) : Hashes[i] = rev
         THEN CHOOSE i \in 1..Len(hist) : Hashes[i] = rev
    ELSE IF rev = <<"H","E","A","D","~","1","0">> /\ Len(hist) > 10 THEN Len(hist) - 10
    ELSE -1

\* The result of a subprocess: whether it ran and exited with status 0, and
\* its standard output.
Failed == [ok |-> FALSE, stdout |-> <<>>]
Succeeded(out) == [ok |-> TRUE, stdout |-> out]

\* git describe --tags --abbrev=0 (line 51): a latest tag reachable from
\* HEAD; it fails when there is none.
GitDescribe(hist, tgs) ==
    LET named == {t \in TagNames : tgs[t] > 0}
    IN  IF named = {} THEN {Failed}
        ELSE {Succeeded(t \o <<NL>>) : t \in {u \in named : \A w \in named : tgs[w] <= tgs[u]}}

\* git rev-list --max-parents=0 HEAD (line 62): the hash of the first commit;
\* it fails in a repository with no commit.
GitRevList(hist) ==
    IF hist = <<>> THEN Failed ELSE Succeeded(Hashes[1] \o <<NL>>)

\* git log --pretty=format:"%H %s" <rev>..HEAD --reverse (line 85): one line
\* per commit after rev, oldest first; it fails when rev names no commit.
GitLog(rev, hist, tgs) ==
    LET from == Resolve(rev, hist, tgs)
    IN  IF hist = <<>> \/ from < 0 THEN Failed
        ELSE Succeeded(JoinNL([k \in 1..(Len(hist) - from) |->
                                 Hashes[from + k] \o <<" ">> \o hist[from + k]]))

\* line.split(' ', 1): the two parts of a line, <<>> when it has no space.
SplitOnce(line) ==
    LET sp == {j \in 1..Len(line) : line[j] = " "}
    IN  IF sp = {} THEN <<>>
        ELSE <<SubSeq(line, 1, Min(sp) - 1), SubSeq(line, Min(sp) + 1, Len(line))>>

\* Lines 89-95: the (hash, subject) pairs of the lines of git log.
RECURSIVE CommitsOfLines(_)
CommitsOfLines(lines) ==
    IF lines = <<>> THEN <<>>
    ELSE (IF Strip(Head(lines)) # <<>> /\ SplitOnce(Head(lines)) # <<>>
          THEN <<SplitOnce(Head(lines))>> ELSE <<>>)
         \o CommitsOfLines(Tail(lines))

\* As get_commits_since_tag, with no try around the subprocess.
get_commits_since_tag_NoTry(result) ==
    IF result.ok
    THEN [commits |-> CommitsOfLines(SplitNL(Strip(result.stdout))),
          warned |-> FALSE, raised |-> FALSE]
    ELSE [commits |-> <<>>, warned |-> FALSE, raised |-> TRUE]

\* get_commits_since_tag, given the result of git log: the commits, whether
\* the warning was printed, and whether an exception left the function.
get_commits_since_tag(result) ==
    IF result.ok
    THEN [commits |-> CommitsOfLines(SplitNL(Strip(result.stdout))),
          warned |-> FALSE, raised |-> FALSE]
    ELSE [commits |-> <<>>, warned |-> TRUE, raised |-> FALSE]

\* The local variables of a command; no command is running.
IdleRun ==
    [pc |-> "idle", cmd |-> "none", prev_tag |-> <<>>, current_tag |-> <<>>,
     last_tag |-> <<>>, commits |-> <<>>, categories |-> <<>>, new_content |-> <<>>,
     notes |-> <<>>, info |-> "", warnings |-> 0, exit |-> "none",
     file0 |-> NoFile, failed |-> {}, calls |-> <<>>]

(***************************************************************************)
(* The extractor script on a given changelog                               *)
(***************************************************************************)
MaxLines == 3

Versions == {<<"1",".","0">>, <<"2",".","0">>}

\* The lines a changelog is drawn from: headings of both versions, with and
\* without a date, a heading that only a regex dot would match, an indented
\* heading, a heading of another version, blank lines and body lines.
LineSet ==
    { <<"#","#"," ","[","1",".","0","]">>, <<"#","#"," ","[","1",".","0","]"," ","-"," ","d">>, <<"#","#"," ","[","2",".","0","]">>, <<"#","#"," ","[","1","x","0","]">>, <<" ","#","#"," ","[","1",".","0","]">>,
      <<"#","#"," ","[","0",".","9","]">>, <<>>, <<" "," ">>, <<"b">>, <<"c"," ","d">> }

Contents ==
    { JoinNL(ls) \o tail :
        ls \in UNION {[1..n -> LineSet] : n \in 0..MaxLines},
        tail \in {<<>>, <<NL>>} }

\* The script starts on any changelog and version; the generator is not run.
InitExtract ==
    /\ content \in Contents
    /\ version \in Versions
    /\ match = NoMatch
    /\ printed = <<>>
    /\ xpc = "search"
    /\ fcommits = <<>>
    /\ ftoday = <<>>
    /\ ffile = NoFile
    /\ fparsed = <<>>
    /\ fcategories = <<>>
    /\ fchangelog = <<>>
    /\ fnotes = <<>>
    /\ fpc = "idle"
    /\ history = <<>>
    /\ tags = NoTags
    /\ file = NoFile
    /\ today = <<>>
    /\ writes = 0
    /\ run = IdleRun

\* Lines 16-17.
XSearch ==
    /\ xpc = "search"
    /\ match' = Search(content, version)
    /\ xpc' = "print"
    /\ UNCHANGED <<content, version, printed, fvars, gvars>>

\* Lines 18-25.
XPrint ==
    /\ xpc = "print"
    /\ printed' = Output(match, version)
    /\ xpc' = "done"
    /\ UNCHANGED <<content, version, match, fvars, gvars>>

XNext == XSearch \/ XPrint


(***************************************************************************)
(* The pipeline of update-changelog.py on a given commit list              *)
(***************************************************************************)
MaxSeq == 3

\* Commit subjects of every shape of the grammar: each type or a word that is
\* none, with a scope, an empty scope, an unclosed scope or none, then a
\* colon and a space or less, then a description or none.
SubjectTypes == {Types[k] : k \in 1..Len(Types)} \cup {<<"f","e","a","t","u","r","e">>, <<"F","i","x">>, <<"w","i","p">>}
SubjectScopes == {<<>>, <<"(","s",")">>, <<"(",")">>, <<"(","a">>, <<"(","a",")","b",")">>}
SubjectSeparators == {<<":"," ">>, <<":">>, <<" ">>}
SubjectDescriptions == {<<>>, <<"d">>, <<"x",":"," ","y">>}

AllSubjects ==
    { t \o sc \o sep \o d :
        t \in SubjectTypes, sc \in SubjectScopes,
        sep \in SubjectSeparators, d \in SubjectDescriptions }

\* The subjects the commit sequences are drawn from: two commits with the same
\* description in one category, a second description of that category, other
\* categories, and a subject that is no conventional commit.
SeqSubjects == {<<"f","e","a","t",":"," ","a">>, <<"f","e","a","t","(","x",")",":"," ","a">>, <<"f","e","a","t",":"," ","e">>, <<"f","i","x",":"," ","b">>, <<"c","i",":"," ","c">>, <<"w","i","p">>}

Dates == {<<"2","0","2","4","-","0","1","-","0","1">>, <<"2","0","2","5","-","1","2","-","3","1">>}

\* The changelog files an update may find: none, one with the header and an
\* earlier section, one that is the header alone with no newline after it,
\* one with text above the header, and one with no header at all.
Files ==
    { NoFile,
      FileOf(<<"#"," ","C","h","a","n","g","e","l","o","g","\n","\n","#","#"," ","[","1",".","0","]",
       " ","-"," ","d","\n","-"," ","o","l","d","\n">>),
      FileOf(<<"#"," ","C","h","a","n","g","e","l","o","g">>),
      FileOf(<<"i","n","t","r","o","\n","#"," ","C","h","a","n","g","e","l","o","g","\n","r","e","s",
       "t">>),
      FileOf(<<"n","o","t","e","s","\n">>) }

\* The pipeline starts on one commit of any subject, or on a sequence of
\* commits; the extractor is not run.
InitFormat ==
    /\ \/ \E m \in AllSubjects : fcommits = CommitsOf(<<m>>)
       \/ \E n \in 0..MaxSeq : \E ms \in [1..n -> SeqSubjects] : fcommits = CommitsOf(ms)
    /\ ftoday \in Dates
    /\ ffile \in Files
    /\ fparsed = <<>>
    /\ fcategories = <<>>
    /\ fchangelog = <<>>
    /\ fnotes = <<>>
    /\ fpc = "parse"
    /\ content = <<>>
    /\ version = <<>>
    /\ match = NoMatch
    /\ printed = <<>>
    /\ xpc = "idle"
    /\ history = <<>>
    /\ tags = NoTags
    /\ file = NoFile
    /\ today = <<>>
    /\ writes = 0
    /\ run = IdleRun

FParse ==
    /\ fpc = "parse"
    /\ fparsed' = [i \in 1..Len(fcommits) |-> parse_conventional_commit(fcommits[i][2])]
    /\ fpc' = "categorize"
    /\ UNCHANGED <<fcommits, ftoday, ffile, fcategories, fchangelog, fnotes, xvars, gvars>>

FCategorize ==
    /\ fpc = "categorize"
    /\ fcategories' = categorize_commits(fcommits)
    /\ fpc' = "changelog"
    /\ UNCHANGED <<fcommits, ftoday, ffile, fparsed, fchangelog, fnotes, xvars, gvars>>

FChangelog ==
    /\ fpc = "changelog"
    /\ fchangelog' = generate_changelog_content(fcategories, ftoday)
    /\ fpc' = "notes"
    /\ UNCHANGED <<fcommits, ftoday, ffile, fparsed, fcategories, fnotes, xvars, gvars>>

FNotes ==
    /\ fpc = "notes"
    /\ fnotes' = ReleaseNotesOf(fcommits, <<"v","1">>, <<"v","2">>)
    /\ fpc' = "update"
    /\ UNCHANGED <<fcommits, ftoday, ffile, fparsed, fcategories, fchangelog, xvars, gvars>>

\* update_changelog from line 153 on, with fcommits as the commit list.
FUpdate ==
    /\ fpc = "update"
    /\ ffile' = UpdatedFile(ffile, fcommits, ftoday)
    /\ fpc' = "done"
    /\ UNCHANGED <<fcommits, ftoday, fparsed, fcategories, fchangelog, fnotes, xvars, gvars>>

FNext == FParse \/ FCategorize \/ FChangelog \/ FNotes \/ FUpdate

SpecFormat == InitFormat /\ [][FNext]_vars

SpecExtract == InitExtract /\ [][XNext]_vars

(***************************************************************************)
(* update-changelog.py as a command in a repository                        *)
(***************************************************************************)
MaxCommits == 2
MaxWrites == 2

\* The subjects of the commits of the repository.
RepoSubjects == {<<"f","i","x","(","s",")",":"," ","b">>, <<"w","i","p">>}

\* The changelog files the repository may start with: none, one with the
\* header and an earlier section, one that is the header alone with no newline
\* after it, one with text above the header, and one with no header at all.
RepoFiles ==
    { NoFile,
      FileOf(<<"#"," ","C","h","a","n","g","e","l","o","g","\n","\n","#","#"," ","[","1",".","0","]",
       " ","-"," ","d","\n","-"," ","o","l","d","\n">>),
      FileOf(<<"#"," ","C","h","a","n","g","e","l","o","g">>),
      FileOf(<<"i","n","t","r","o","\n","#"," ","C","h","a","n","g","e","l","o","g","\n","r","e","s",
       "t">>),
      FileOf(<<"n","o","t","e","s","\n">>) }

\* An empty repository, with or without a changelog; no command is running,
\* and neither the extractor nor the pipeline is run.
Init ==
    /\ history = <<>>
    /\ tags = NoTags
    /\ file \in RepoFiles
    /\ today \in Dates
    /\ writes = 0
    /\ run = IdleRun
    /\ content = <<>>
    /\ version = <<>>
    /\ match = NoMatch
    /\ printed = <<>>
    /\ xpc = "idle"
    /\ fcommits = <<>>
    /\ ftoday = <<>>
    /\ ffile = NoFile
    /\ fparsed = <<>>
    /\ fcategories = <<>>
    /\ fchangelog = <<>>
    /\ fnotes = <<>>
    /\ fpc = "idle"

\* --- the repository changes between two commands ---
GitCommit ==
    /\ run.pc = "idle"
    /\ Len(history) < MaxCommits
    /\ \E m \in RepoSubjects : history' = Append(history, m)
    /\ UNCHANGED <<tags, file, today, writes, run, xvars, fvars>>

GitTag ==
    /\ run.pc = "idle"
    /\ history # <<>>
    /\ \E t \in TagNames :
          /\ tags[t] = 0
          /\ tags' = [tags EXCEPT ![t] = Len(history)]
    /\ UNCHANGED <<history, file, today, writes, run, xvars, fvars>>

\* --- main(), lines 244-271 ---
\* As InitUpdates, with the test of line 252 left out.
InitUpdates_Always(f) == TRUE

\* Line 252: init runs the update only when there is no changelog file.
InitUpdates(f) == ~f.exists

Started(cmd) == [IdleRun EXCEPT !.cmd = cmd, !.file0 = file, !.exit = "running"]

\* python scripts/update-changelog.py [update]
RunUpdate ==
    /\ run.pc = "idle"
    /\ writes < MaxWrites
    /\ run' = [Started("update") EXCEPT !.pc = "describe"]
    /\ UNCHANGED <<history, tags, file, today, writes, xvars, fvars>>

\* python scripts/update-changelog.py init
RunInit ==
    /\ run.pc = "idle"
    /\ writes < MaxWrites
    /\ run' = IF InitUpdates(file)
              THEN [Started("init") EXCEPT !.pc = "describe"]
              ELSE [Started("init") EXCEPT !.pc = "done", !.exit = "ok",
                                           !.info = "Changelog already exists"]
    /\ UNCHANGED <<history, tags, file, today, writes, xvars, fvars>>

\* python scripts/update-changelog.py release-notes <prev_tag> <current_tag>
RunReleaseNotes ==
    /\ run.pc = "idle"
    /\ \E p \in TagNames, c \in TagNames :
          run' = [Started("release-notes") EXCEPT
                     !.pc = "log", !.prev_tag = p, !.current_tag = c, !.last_tag = p]
    /\ UNCHANGED <<history, tags, file, today, writes, xvars, fvars>>

\* --- get_last_tag, lines 47-67 ---
Called(name) == Append(run.calls, name)

\* Lines 49-57: git describe; any subprocess may also fail for a reason of
\* its own (no git, a broken repository).
Describe ==
    /\ run.pc = "describe"
    /\ \E result \in GitDescribe(history, tags) \cup {Failed} :
          run' = IF result.ok
                 THEN [run EXCEPT !.pc = "log", !.calls = Called("describe"),
                                  !.last_tag = Strip(result.stdout)]
                 ELSE [run EXCEPT !.pc = "rev-list", !.calls = Called("describe"),
                                  !.failed = @ \cup {"describe"}]
    /\ UNCHANGED <<history, tags, file, today, writes, xvars, fvars>>

\* Lines 59-67: git rev-list, and "HEAD~10" when it fails.
RevList ==
    /\ run.pc = "rev-list"
    /\ \E result \in {GitRevList(history), Failed} :
          run' = IF result.ok
                 THEN [run EXCEPT !.pc = "log", !.calls = Called("rev-list"),
                                  !.last_tag = Strip(result.stdout)]
                 ELSE [run EXCEPT !.pc = "log", !.calls = Called("rev-list"),
                                  !.failed = @ \cup {"rev-list"},
                                  !.last_tag = <<"H","E","A","D","~","1","0">>]
    /\ UNCHANGED <<history, tags, file, today, writes, xvars, fvars>>

\* --- get_commits_since_tag and the test that follows the call ---
\* Lines 153-156 of update_changelog, lines 200-202 of generate_release_notes.
Log ==
    /\ run.pc = "log"
    /\ \E result \in {GitLog(run.last_tag, history, tags), Failed} :
          LET got == get_commits_since_tag(result)
              ran == [run EXCEPT !.calls = Called("log"),
                                 !.failed = IF result.ok THEN @ ELSE @ \cup {"log"},
                                 !.commits = got.commits,
                                 !.warnings = IF got.warned THEN @ + 1 ELSE @]
          IN  run' = IF got.raised
                     THEN [ran EXCEPT !.pc = "done", !.exit = "exception"]
                     ELSE IF run.cmd = "release-notes"
                     THEN [ran EXCEPT !.pc = "notes"]
                     ELSE IF got.commits = <<>>
                     THEN [ran EXCEPT !.pc = "done", !.exit = "ok",
                                      !.info = "No new commits since last tag"]
                     ELSE [ran EXCEPT !.pc = "categorize"]
    /\ UNCHANGED <<history, tags, file, today, writes, xvars, fvars>>

\* Lines 158-159 of update_changelog.
Categorize ==
    /\ run.pc = "categorize"
    /\ LET categories == categorize_commits(run.commits)
       IN  run' = [run EXCEPT !.pc = "write", !.categories = categories,
                              !.new_content = generate_changelog_content(categories, today)]
    /\ UNCHANGED <<history, tags, file, today, writes, xvars, fvars>>

\* Lines 161-196 of update_changelog.
Write ==
    /\ run.pc = "write"
    /\ IF run.new_content = <<>>
       THEN /\ run' = [run EXCEPT !.pc = "done", !.exit = "ok",
                                  !.info = "No conventional commits found"]
            /\ UNCHANGED <<file, writes>>
       ELSE /\ file' = WriteChangelog(file, run.new_content)
            /\ writes' = writes + 1
            /\ run' = [run EXCEPT !.pc = "done", !.exit = "ok",
                                  !.info = "Changelog updated successfully!"]
    /\ UNCHANGED <<history, tags, today, xvars, fvars>>

\* Lines 201-220 of generate_release_notes, and the print of line 263.
Notes ==
    /\ run.pc = "notes"
    /\ run' = [run EXCEPT !.pc = "done", !.exit = "ok",
                          !.notes = ReleaseNotesOf(run.commits, run.prev_tag, run.current_tag)]
    /\ UNCHANGED <<history, tags, file, today, writes, xvars, fvars>>

\* The process ends; its local variables are gone.
Exit ==
    /\ run.pc = "done"
    /\ run' = IdleRun
    /\ UNCHANGED <<history, tags, file, today, writes, xvars, fvars>>

Next ==
    \/ GitCommit \/ GitTag
    \/ RunUpdate \/ RunInit \/ RunReleaseNotes
    \/ Describe \/ RevList \/ Log \/ Categorize \/ Write \/ Notes \/ Exit

Spec == Init /\ [][Next]_vars

(***************************************************************************)
(* C1: the three outcomes of the extractor                                 *)
(***************************************************************************)
\* The section of version v as the claim describes it: the first line that
\* begins with "## [v]", and the lines after it up to the next line that
\* begins with "## [" or the end of the text.
SectionHeadings(ls, v) == {h \in 1..Len(ls) : StartsWith(ls[h], <<"#","#"," ","[">> \o v \o <<"]">>)}
SectionBody(ls, h) ==
    LET next == {k \in (h + 1)..Len(ls) : StartsWith(ls[k], <<"#","#"," ","[">>)}
        last == IF next = {} THEN Len(ls) ELSE Min(next) - 1
    IN  Strip(JoinNL(SubSeq(ls, h + 1, last)))

ClaimedOutput(s, v) ==
    LET ls == SplitNL(s)
        hs == SectionHeadings(ls, v)
    IN  IF hs = {} THEN NoSection(v)
        ELSE LET body == SectionBody(ls, Min(hs))
             IN  IF body # <<>> THEN WhatsChanged(body) ELSE NoDetails(v)

\* C1: whatever the changelog text and the version, the extractor prints the
\* "What's Changed" block with the trimmed body when the version's section
\* has one, the "No detailed changes" fallback when the section is there with
\* an empty body (also when its heading is the last line of the text), and
\* the "various improvements" fallback only when no line begins with the
\* version's heading.
C1_ThreeOutcomes == xpc = "done" => printed = ClaimedOutput(content, version)

\* The same statement for every text in which the heading line of the
\* version's section is ended by a newline.
C1_HeadingTerminated ==
    LET ls == SplitNL(content)
        hs == SectionHeadings(ls, version)
    IN  (xpc = "done" /\ (hs = {} \/ Min(hs) < Len(ls)))
            => printed = ClaimedOutput(content, version)
(***************************************************************************)
(* C2: the grammar of conventional commits, and where a commit is filed    *)
(***************************************************************************)
ClaimedTypes ==
    { <<"f","e","a","t">>, <<"f","i","x">>, <<"d","o","c","s">>, <<"s","t","y","l","e">>, <<"r","e","f","a","c","t","o","r">>, <<"p","e","r","f">>, <<"t","e","s","t">>, <<"b","u","i","l","d">>,
      <<"c","i">>, <<"c","h","o","r","e">>, <<"r","e","v","e","r","t">> }

ClaimedCategory(t) ==
    CASE t = <<"f","e","a","t">> -> <<"A","d","d","e","d">>
      [] t = <<"f","i","x">> -> <<"F","i","x","e","d">>
      [] t = <<"d","o","c","s">> -> <<"D","o","c","u","m","e","n","t","a","t","i","o","n">>
      [] t \in {<<"s","t","y","l","e">>, <<"r","e","f","a","c","t","o","r">>} -> <<"C","h","a","n","g","e","d">>
      [] t = <<"p","e","r","f">> -> <<"P","e","r","f","o","r","m","a","n","c","e">>
      [] t = <<"t","e","s","t">> -> <<"T","e","s","t","i","n","g">>
      [] t \in {<<"b","u","i","l","d">>, <<"c","i">>} -> <<"B","u","i","l","d">>
      [] t = <<"c","h","o","r","e">> -> <<"M","a","i","n","t","e","n","a","n","c","e">>
      [] t = <<"r","e","v","e","r","t">> -> <<"R","e","v","e","r","t","e","d">>

\* A scope: one or more characters, none of them ")".
IsScope(x) == x # <<>> /\ \A k \in 1..Len(x) : x[k] # ")"

\* msg is "t: d" or "t(scope): d".
HasForm(msg, t, d) ==
    \/ msg = t \o <<":"," ">> \o d
    \/ \E n \in 1..(Len(msg) - Len(t) - 1) :
          LET sc == SubSeq(msg, Len(t) + 2, Len(t) + 1 + n)
          IN  IsScope(sc) /\ msg = t \o <<"(">> \o sc \o <<")",":"," ">> \o d

\* The ways to read msg as a conventional commit: (type, description).
Readings(msg) ==
    { r \in {t \in ClaimedTypes : StartsWith(msg, t)}
             \X {SubSeq(msg, i, Len(msg)) : i \in 1..Len(msg)} :
        HasForm(msg, r[1], r[2]) }

EntriesOf(categories, key) ==
    LET ks == {k \in 1..Len(categories) : categories[k].key = key}
    IN  IF ks = {} THEN <<>> ELSE categories[Min(ks)].entries

\* The categories hold the one entry e, under key.
OnlyEntry(categories, key, e) ==
    \A k \in 1..Len(categories) :
        categories[k].entries = IF categories[k].key = key THEN <<e>> ELSE <<>>

\* C2: a message "type(scope): desc" or "type: desc" with a type of the fixed
\* set and a description that is not empty parses to exactly (type, desc),
\* the scope dropped, and is filed as desc under the category of its type;
\* every other message does not parse, and is filed whole under "Other" and
\* nowhere else.
C2_ParseAndFile ==
    /\ fpc = "categorize" =>
         \A i \in 1..Len(fcommits) :
            LET msg == fcommits[i][2]
                rs == Readings(msg)
            IN  /\ rs = {} => ~fparsed[i].ok
                /\ \A r \in rs :
                      /\ fparsed[i].ok
                      /\ fparsed[i].type = r[1]
                      /\ fparsed[i].description = r[2]
    /\ (fpc = "changelog" /\ Len(fcommits) = 1) =>
         LET msg == fcommits[1][2]
             rs == Readings(msg)
         IN  /\ rs = {} => OnlyEntry(fcategories, <<"O","t","h","e","r">>, msg)
             /\ \A r \in rs : OnlyEntry(fcategories, ClaimedCategory(r[1]), r[2])

\* A commit with a scope was parsed and filed, and so was one that is no
\* conventional commit because its scope is empty.
C2_Witness ==
    /\ fpc = "changelog"
    /\ Len(fcommits) = 1
    /\ \/ /\ fcommits[1][2] = <<"c","i","(","s",")",":"," ","x",":"," ","y">>
          /\ EntriesOf(fcategories, <<"B","u","i","l","d">>) = <<<<"x",":"," ","y">>>>
       \/ /\ fcommits[1][2] = <<"f","e","a","t","(",")",":"," ","d">>
          /\ EntriesOf(fcategories, <<"O","t","h","e","r">>) = <<<<"f","e","a","t","(",")",":"," ","d">>>>

(***************************************************************************)
(* C3: order and multiplicity within a category                            *)
(***************************************************************************)
\* What a commit contributes, and to which category.
EntryOfCommit(commit) ==
    LET parsed == parse_conventional_commit(commit[2])
    IN  IF parsed.ok THEN parsed.description ELSE commit[2]

CategoryOfCommit(commit) ==
    LET parsed == parse_conventional_commit(commit[2])
    IN  IF parsed.ok THEN commit_categories(parsed.type) ELSE <<"O","t","h","e","r">>

\* C3: the entries of each category are the contributions of the commits of
\* that category, in the order of the commits, one entry per commit: equal
\* descriptions are kept as often as they occur.
C3_OrderNoDedup ==
    fpc = "changelog" =>
        \A k \in 1..Len(fcategories) :
            LET from == {i \in 1..Len(fcommits) :
                            CategoryOfCommit(fcommits[i]) = fcategories[k].key}
                entries == fcategories[k].entries
            IN  /\ Len(entries) = Cardinality(from)
                /\ \A i \in from :
                      entries[Cardinality({j \in from : j <= i})] = EntryOfCommit(fcommits[i])

\* Three commits of one category, two of them with the same description and
\* the third, with another description, not the last.
C3_Witness ==
    /\ fpc = "changelog"
    /\ EntriesOf(fcategories, <<"A","d","d","e","d">>) = <<<<"a">>, <<"e">>, <<"a">>>>

(***************************************************************************)
(* C4: the headings of the rendered sections                               *)
(***************************************************************************)
ClaimedOrder ==
    << <<"A","d","d","e","d">>, <<"C","h","a","n","g","e","d">>, <<"F","i","x","e","d">>, <<"D","o","c","u","m","e","n","t","a","t","i","o","n">>, <<"P","e","r","f","o","r","m","a","n","c","e">>, <<"T","e","s","t","i","n","g">>,
       <<"B","u","i","l","d">>, <<"M","a","i","n","t","e","n","a","n","c","e">>, <<"R","e","v","e","r","t","e","d">>, <<"O","t","h","e","r">> >>

\* The place of a heading's category in the fixed order, 0 for an unknown one.
OrderIndex(name) ==
    LET ks == {k \in 1..Len(ClaimedOrder) : ClaimedOrder[k] = name}
    IN  IF ks = {} THEN 0 ELSE Min(ks)

HeadingLines(ls) == {h \in 1..Len(ls) : StartsWith(ls[h], <<"#","#","#"," ">>)}
HeadingName(l) == SubSeq(l, 5, Len(l))

\* text renders the categories: its "### " headings are categories in the
\* fixed order, each at most once, exactly those with entries, and under each
\* heading come the "- " lines of its entries and no other "- " line.
RendersInOrder(text, categories) ==
    LET ls == SplitNL(text)
        hs == HeadingLines(ls)
    IN  /\ \A h \in hs : OrderIndex(HeadingName(ls[h])) # 0
        /\ \A h1, h2 \in hs :
              h1 < h2 => OrderIndex(HeadingName(ls[h1])) < OrderIndex(HeadingName(ls[h2]))
        /\ \A k \in 1..Len(categories) :
              categories[k].entries # <<>> =>
                  \E h \in hs : HeadingName(ls[h]) = categories[k].key
        /\ \A h \in hs :
              LET e == EntriesOf(categories, HeadingName(ls[h]))
              IN  /\ e # <<>>
                  /\ h + Len(e) + 1 <= Len(ls)
                  /\ \A k \in 1..Len(e) : ls[h + k] = <<"-"," ">> \o e[k]
                  /\ ~StartsWith(ls[h + Len(e) + 1], <<"-"," ">>)

\* C4: in the output of generate_changelog_content and of
\* generate_release_notes the "### <Category>" headings come in the order
\* Added, Changed, Fixed, Documentation, Performance, Testing, Build,
\* Maintenance, Reverted, Other, each at most once and only for a category
\* with entries, and each is followed by one "- <description>" line per entry.
C4_HeadingOrder ==
    /\ fpc \in {"notes", "update", "done"} => RendersInOrder(fchangelog, fcategories)
    /\ fpc \in {"update", "done"} => RendersInOrder(fnotes, fcategories)

\* Both outputs were rendered with Fixed, Build and Other sections.
C4_Witness ==
    /\ fpc = "done"
    /\ \A key \in {<<"F","i","x","e","d">>, <<"B","u","i","l","d">>, <<"O","t","h","e","r">>} : EntriesOf(fcategories, key) # <<>>
    /\ Cardinality(HeadingLines(SplitNL(fchangelog))) = 3
    /\ Cardinality(HeadingLines(SplitNL(fnotes))) = 3

(***************************************************************************)
(* C5: empty content                                                       *)
(***************************************************************************)
\* C5: generate_changelog_content returns the empty string when every
\* category list is empty and otherwise a text that begins with the
\* "## [Unreleased] - <date>" header; and when it returns the empty string
\* the update does not write the changelog file.
C5_EmptyContent ==
    [][ /\ fpc = "changelog" =>
            IF AnyEntries(fcategories)
            THEN StartsWith(fchangelog', <<"#","#"," ","[","U","n","r","e","l","e","a","s","e","d","]"," ","-"," ">> \o ftoday \o <<NL>>)
            ELSE fchangelog' = <<>>
        /\ (fpc = "update" /\ fchangelog = <<>>) => ffile' = ffile
      ]_vars

\* An update that found a changelog file and no content has run.
C5_Witness ==
    /\ fpc = "done"
    /\ ~AnyEntries(fcategories)
    /\ fchangelog = <<>>
    /\ ffile.exists
(***************************************************************************)
(* C6: the range of the release notes                                      *)
(***************************************************************************)
\* The commits after the commit at place a, up to the one at place b.
CommitsBetween(a, b) == [k \in 1..(b - a) |-> <<Hashes[a + k], history[a + k]>>]

\* C6 (for two different tags): release-notes <prev_tag> <current_tag> reports the commits between the
\* two tags and no commit made after current_tag: "No changes in this
\* release." when there is none, and otherwise the heading, the categorized
\* commits of the range and the compare link of the two tags.
C6_RangeOfTheTags ==
    ( /\ run.pc = "done"
      /\ run.cmd = "release-notes"
      /\ run.failed = {}
      /\ run.prev_tag # run.current_tag
      /\ tags[run.prev_tag] > 0
      /\ tags[run.prev_tag] <= tags[run.current_tag] )
    => run.notes = ReleaseNotesOf(CommitsBetween(tags[run.prev_tag], tags[run.current_tag]),
                                  run.prev_tag, run.current_tag)

(***************************************************************************)
(* C7: an update inserts and changes nothing else                          *)
(***************************************************************************)
\* The lines of a text without their newlines (str.splitlines).
TextLines(s) ==
    IF s = <<>> THEN <<>>
    ELSE IF s[Len(s)] = NL THEN SplitNL(SubSeq(s, 1, Len(s) - 1))
    ELSE SplitNL(s)

NotBlank(l) == l # <<>>

UnreleasedBlocks(ls) == Cardinality({i \in 1..Len(ls) : StartsWith(ls[i], <<"#","#"," ","[","U","n","r","e","l","e","a","s","e","d","]">>)})

\* new is old with lines inserted after line h, the lines of block and blank
\* lines, the block's header first.
InsertedUnder(old, new, h, block) ==
    LET k == Len(new) - Len(old)
        inserted == SelectSeq(SubSeq(new, h + 1, h + k), NotBlank)
    IN  /\ k > 0
        /\ SubSeq(new, 1, h) = SubSeq(old, 1, h)
        /\ SubSeq(new, h + k + 1, Len(new)) = SubSeq(old, h + 1, Len(old))
        /\ inserted = SelectSeq(TextLines(block), NotBlank)
        /\ StartsWith(Head(inserted), <<"#","#"," ","[","U","n","r","e","l","e","a","s","e","d","]"," ","-"," ">>)

\* C7: when the changelog file exists and the update has commits, the update
\* inserts the new "## [Unreleased]" block under the first line that begins
\* with "# Changelog" (at the top of a file without one) and changes nothing
\* else: every earlier line is kept, in its place relative to the others. So
\* after any sequence of runs the file holds one block per run that wrote.
C7_InsertsOnly ==
    /\ (run.pc = "done" /\ run.cmd = "update" /\ run.file0.exists /\ run.commits # <<>>) =>
          LET old == TextLines(run.file0.text)
              new == TextLines(file.text)
              hs == {i \in 1..Len(old) : StartsWith(old[i], <<"#"," ","C","h","a","n","g","e","l","o","g">>)}
          IN  /\ InsertedUnder(old, new, IF hs = {} THEN 0 ELSE Min(hs), run.new_content)
              /\ UnreleasedBlocks(new) = UnreleasedBlocks(old) + 1
    /\ (run.pc = "done" /\ run.cmd = "update") =>
          UnreleasedBlocks(TextLines(file.text)) = writes

\* Two updates have written the file that was there; both blocks and the
\* earlier section are in it.
C7_Witness ==
    /\ run.pc = "done"
    /\ run.cmd = "update"
    /\ writes = 2
    /\ UnreleasedBlocks(TextLines(file.text)) = 2
    /\ TextLines(file.text)[Len(TextLines(file.text))] = <<"-"," ","o","l","d">>

(***************************************************************************)
(* C8: init                                                                *)
(***************************************************************************)
\* C8: init leaves an existing changelog file as it is, whatever the history,
\* runs no git query and ends normally; with no changelog file it does what
\* update does: it queries the last tag and the commits since, and creates
\* the file when there are commits.
C8_InitKeepsFile ==
    /\ (run.cmd = "init" /\ run.file0.exists) =>
          /\ file = run.file0
          /\ run.calls = <<>>
          /\ run.pc = "done"
          /\ run.exit = "ok"
    /\ (run.cmd = "init" /\ ~run.file0.exists /\ run.pc = "done") =>
          /\ run.exit = "ok"
          /\ Head(run.calls) = "describe"
          /\ run.calls[Len(run.calls)] = "log"
          /\ file = UpdatedFile(NoFile, run.commits, today)

\* init has run and ended in a repository with commits and a changelog file.
C8_Witness ==
    /\ run.cmd = "init"
    /\ run.pc = "done"
    /\ run.file0.exists
    /\ history # <<>>

(***************************************************************************)
(* C9: failures of the git subprocesses                                    *)
(***************************************************************************)
ChangesFile == run.cmd \in {"update", "init"}

NoRetry == \A i, j \in 1..Len(run.calls) : run.calls[i] = run.calls[j] => i = j

\* C9 as claimed: a failure of any git subprocess, the tag query or the log
\* query, reduces to an empty result and a warning; the command ends
\* normally, update leaves the changelog file as it is, release-notes prints
\* "No changes in this release.", and no call is retried.
C9_AnyFailureIsEmpty ==
    (run.pc = "done" /\ run.failed # {}) =>
        /\ run.exit = "ok"
        /\ run.commits = <<>>
        /\ run.warnings >= 1
        /\ ChangesFile => file = run.file0
        /\ run.cmd = "release-notes" => run.notes = NoChanges
        /\ NoRetry

\* C9, amended: a failure of the log query reduces to an empty commit list
\* and one warning; the command ends normally, update leaves the changelog
\* file as it is and release-notes prints "No changes in this release.". A
\* failure of a tag query is not fatal either, but it prints no warning and
\* gives no empty result: get_last_tag falls back to the first commit, and to
\* "HEAD~10" when that query fails too. No call is retried.
C9_LogFailureIsEmpty ==
    /\ run.pc = "done" =>
          /\ run.exit = "ok"
          /\ NoRetry
          /\ run.warnings = IF "log" \in run.failed THEN 1 ELSE 0
          /\ "log" \in run.failed =>
                /\ run.commits = <<>>
                /\ ChangesFile => file = run.file0
                /\ run.cmd = "release-notes" => run.notes = NoChanges
    /\ (run.pc \notin {"idle", "describe", "rev-list"} /\ "describe" \in run.failed) =>
          run.last_tag = IF "rev-list" \in run.failed THEN <<"H","E","A","D","~","1","0">> ELSE Hashes[1]

\* An update has ended whose log query failed in a repository with commits.
C9_Witness ==
    /\ run.pc = "done"
    /\ run.cmd = "update"
    /\ "log" \in run.failed
    /\ run.failed # {"describe", "rev-list", "log"}
    /\ history # <<>>
    /\ file = run.file0

(***************************************************************************)
(* C10: no commit is lost                                                  *)
(***************************************************************************)
RECURSIVE TotalEntries(_)
TotalEntries(categories) ==
    IF categories = <<>> THEN 0
    ELSE Len(Head(categories).entries) + TotalEntries(Tail(categories))

====
